---- MODULE Spec2Model ----
(***************************************************************************)
(* Model of the weather_analysis data pipeline:                            *)
(*   src/data/get_data.py      fetch-and-cache stage (one file per day)    *)
(*   src/data/make_interim.py  consolidation, one sorted dataset/location  *)
(*   src/data/make_csv.py      consolidation, CSV only                     *)
(* The cache is the directory tree data/raw/{location}/{subdir}/{doy}.json *)
(* Strings that the code inspects character by character (paths, names)    *)
(* are tuples of one-character strings.                                    *)
(***************************************************************************)
EXTENDS Integers, Sequences, FiniteSets, TLC

\* Number of calendar days of a modelled year (365 or 366 in the program).
NumDays == 2

Days == 1..NumDays

\* Values of the `year` command-line argument.
Years == {2016, 2017}

FirstYear == CHOOSE y \in Years : \A z \in Years : y <= z

\* Values of the `location` command-line argument.
Locations == {<<"a", "b">>, <<"a", "5">>}

\* data/raw, the input folder of the consolidation scripts.
InputFolder == <<"r", "a", "w">>

\* A directory under the location that no fetch run creates.
OtherDir == <<"t", "m", "p">>

TimeZone == "Europe/Lisbon"

------------------------------------------------------------------------------
\* Strings

DigitChars == <<"0", "1", "2", "3", "4", "5", "6", "7", "8", "9">>

IsDigit(c) == \E i \in 1..Len(DigitChars) : DigitChars[i] = c

RECURSIVE Str(_)
\* str(year) for a non-negative integer
Str(n) == IF n < 10 THEN <<DigitChars[n + 1]>>
          ELSE Str(n \div 10) \o <<DigitChars[(n % 10) + 1]>>

\* os.path.join of two components
PathJoin(a, b) == a \o <<"/">> \o b

YearDir(y) == Str(y)

SubDirs == {YearDir(y) : y \in Years} \cup {OtherDir}

------------------------------------------------------------------------------
\* Payloads and files

\* A file slot that holds nothing.
Absent == [kind |-> "absent", data |-> <<>>, timezone |-> ""]

\* A file that open(obs_fn, 'w') created and json.dump has not completed.
Partial == [kind |-> "partial", data |-> <<>>, timezone |-> ""]

\* get_weather's return value for a falsy HTTP response.
None == [kind |-> "None", data |-> <<>>, timezone |-> ""]

NoResp == [kind |-> "no_response", data |-> <<>>, timezone |-> ""]

\* Seconds-since-epoch of the day, in units of one day.
Epoch(y, d) == (y - FirstYear) * NumDays + d

\* date.fromtimestamp(t).timetuple().tm_yday
DoyOfTimestamp(t) == ((t - 1) % NumDays) + 1

\* The `daily.data` lists the service may answer with for a day whose
\* timestamp is t: the record of the day, or two records that start a day late.
DataLists(t) == {<<t>>, <<t + 1, t + 2>>}

OkPayloads(y, d) ==
  {[kind |-> "ok", data |-> s, timezone |-> TimeZone] : s \in DataLists(Epoch(y, d))}

\* JSON documents without a usable daily.data[0].time, and the empty document.
BadPayloads ==
  {[kind |-> k, data |-> <<>>, timezone |-> TimeZone] :
     k \in {"empty_json", "no_daily", "no_data", "empty_data", "no_time"}}

\* Everything get_weather(latitude, longitude, obs_date) may return.
Responses(y, d) == {None} \cup BadPayloads \cup OkPayloads(y, d)

IsComplete(f) == f.kind = "ok"

EmptyFiles == [d \in Days |-> Absent]

NoDir == [exists |-> FALSE, files |-> EmptyFiles]

EmptyDir == [exists |-> TRUE, files |-> EmptyFiles]

------------------------------------------------------------------------------
\* Logging

\* logging.basicConfig(level=logging.ERROR) of get_data.py
RootLevel == "ERROR"

LevelNo(l) == CASE l = "ERROR" -> 40
                [] l = "WARNING" -> 30
                [] l = "INFO" -> 20

\* Logger.error / Logger.warning / Logger.info: a record below the effective
\* level of the logger is dropped.
LogCall(l, level, msg, d) ==
  IF LevelNo(level) >= LevelNo(RootLevel)
  THEN l \cup {[level |-> level, msg |-> msg, doy |-> d]}
  ELSE l

------------------------------------------------------------------------------
VARIABLES
  location,     \* the location argument of the fetch runs
  tree,         \* data/raw/{location}: subdir name -> [exists, files]
  pc,           \* "idle" (no fetch process), "loop", "write"
  year,         \* year argument of the current or last run
  doy,          \* day of year the loop is at
  requested,    \* days get_weather was called for in this run
  written,      \* days whose file this run wrote completely
  geoCalls,     \* geocoding requests of this run
  log,          \* log records emitted by this run
  exit,         \* how the current or last run ended
  fullAtStart,  \* every day of the year was cached when the run started
  lastResp,     \* last value returned by get_weather in this run
  interimOut,   \* result of make_interim.py
  csvOut        \* result of make_csv.py

vars == <<location, tree, pc, year, doy, requested, written, geoCalls, log,
          exit, fullAtStart, lastResp, interimOut, csvOut>>

fetchVars == <<pc, year, doy, requested, written, geoCalls, log, exit,
               fullAtStart, lastResp>>

NoOutput == [status |-> "none", years |-> {}, rows |-> <<>>, tz |-> ""]

\* The tmp directory as a user may have left it under the location.
OtherDirInit ==
  {NoDir, EmptyDir,
   [exists |-> TRUE,
    files |-> [d \in Days |-> IF d = 1
                              THEN [kind |-> "ok", data |-> <<Epoch(FirstYear, 1)>>,
                                    timezone |-> TimeZone]
                              ELSE Absent]]}

Init ==
  /\ location \in Locations
  /\ \E o \in OtherDirInit :
       tree = [s \in SubDirs |-> IF s = OtherDir THEN o ELSE NoDir]
  /\ pc = "idle"
  /\ year = FirstYear
  /\ doy = 1
  /\ requested = {}
  /\ written = {}
  /\ geoCalls = 0
  /\ log = {}
  /\ exit = "not_run"
  /\ fullAtStart = FALSE
  /\ lastResp = NoResp
  /\ interimOut = NoOutput
  /\ csvOut = NoOutput

------------------------------------------------------------------------------
\* get_data.py

\* Exists without the check: every day is taken to be missing.
ExistsNever(t, y, d) == FALSE

\* os.path.exists(obs_fn)
Exists(t, y, d) == t[YearDir(y)].exists /\ t[YearDir(y)].files[d] # Absent

\* MakeDirs that starts every run from an empty folder.
MakeDirsFresh(t, y) == [t EXCEPT ![YearDir(y)] = EmptyDir]

\* os.makedirs(output_folder) unless it exists
MakeDirs(t, y) ==
  IF t[YearDir(y)].exists THEN t ELSE [t EXCEPT ![YearDir(y)] = EmptyDir]

\* with open(obs_fn, 'w') as fp: the file exists, empty, once opened
OpenForWrite(t, y, d) == [t EXCEPT ![YearDir(y)].files[d] = Partial]

\* json.dump(response, fp) completed and the file closed
DumpJson(t, y, d, resp) == [t EXCEPT ![YearDir(y)].files[d] = resp]

\* `if response:` is false for None and for an empty JSON document
Truthy(resp) == resp.kind \notin {"None", "empty_json"}

\* response['daily']['data'][0]['time'] raises KeyError
RaisesKeyError(resp) == resp.kind \in {"no_daily", "no_data", "no_time"}

\* response['daily']['data'][0] raises IndexError, which nothing catches
RaisesIndexError(resp) == resp.kind = "empty_data"

\* What the loop body does with the value get_weather returned.
Outcome(resp) ==
  IF ~Truthy(resp) THEN "fetch_fail"
  ELSE IF RaisesKeyError(resp) THEN "sys_exit"
  ELSE IF RaisesIndexError(resp) THEN "crash_index"
  ELSE "write"

\* resp_doy
RespDoy(resp) == DoyOfTimestamp(resp.data[1])

\* main() up to the loop: create the folder, then geocode the location.
\* geocode() returns None for an unknown location and .latitude raises.
Begin(y, found) ==
  /\ pc = "idle"
  /\ interimOut.status = "none"
  /\ csvOut.status = "none"
  /\ tree' = MakeDirs(tree, y)
  /\ year' = y
  /\ doy' = 1
  /\ requested' = {}
  /\ written' = {}
  /\ geoCalls' = 1
  /\ log' = {}
  /\ lastResp' = NoResp
  /\ fullAtStart' = \A d \in Days : tree[YearDir(y)].files[d] # Absent
  /\ IF found
     THEN pc' = "loop" /\ exit' = "running"
     ELSE pc' = "idle" /\ exit' = "crash_geocode"
  /\ UNCHANGED <<location, interimOut, csvOut>>

\* pbar.update(1) and the next iteration, or the end of the loop
Advance ==
  IF doy = NumDays
  THEN pc' = "idle" /\ exit' = "complete" /\ doy' = doy
  ELSE pc' = "loop" /\ exit' = exit /\ doy' = doy + 1

\* ReturnFromMain as `continue`: the loop goes on with the next day.
ReturnContinue ==
  /\ Advance
  /\ UNCHANGED tree

\* `return` after "can't fetch data from API": the run ends at this day
ReturnFromMain ==
  /\ pc' = "idle"
  /\ exit' = "fetch_fail"
  /\ UNCHANGED <<tree, doy>>

\* SysExit as `pass`: the handler falls through to the write.
SysExitPass ==
  /\ tree' = OpenForWrite(tree, year, doy)
  /\ pc' = "write"
  /\ UNCHANGED <<doy, exit>>

\* sys.exit(0) in the KeyError handler: nothing is written
SysExit ==
  /\ pc' = "idle"
  /\ exit' = "sys_exit"
  /\ UNCHANGED <<tree, doy>>

\* One iteration whose file already exists.
SkipDay ==
  /\ pc = "loop"
  /\ Exists(tree, year, doy)
  /\ log' = LogCall(log, "INFO", "already_exists", doy)
  /\ Advance
  /\ UNCHANGED <<location, tree, year, requested, written, geoCalls,
                 fullAtStart, lastResp, interimOut, csvOut>>

\* One iteration that calls get_weather, up to the opening of the file.
FetchDay ==
  /\ pc = "loop"
  /\ ~Exists(tree, year, doy)
  /\ \E resp \in Responses(year, doy) :
       /\ requested' = requested \cup {doy}
       /\ lastResp' = resp
       /\ LET o == Outcome(resp) IN
          CASE o = "fetch_fail" ->
                 /\ log' = LogCall(log, "ERROR", "cant_fetch", doy)
                 /\ ReturnFromMain
            [] o = "sys_exit" ->
                 /\ log' = LogCall(log, "ERROR", "no_daily_key", doy)
                 /\ SysExit
            [] o = "crash_index" ->
                 /\ pc' = "idle" /\ exit' = "crash_index"
                 /\ UNCHANGED <<tree, doy, log>>
            [] o = "write" ->
                 /\ log' = IF RespDoy(resp) = doy
                           THEN LogCall(log, "INFO", "same_doy", doy)
                           ELSE LogCall(log, "WARNING", "different_doy", doy)
                 /\ tree' = OpenForWrite(tree, year, doy)
                 /\ pc' = "write"
                 /\ UNCHANGED <<doy, exit>>
  /\ UNCHANGED <<location, year, written, geoCalls, fullAtStart,
                 interimOut, csvOut>>

\* json.dump completes, the file is closed, the loop goes on.
Dump ==
  /\ pc = "write"
  /\ tree' = DumpJson(tree, year, doy, lastResp)
  /\ written' = written \cup {doy}
  /\ Advance
  /\ UNCHANGED <<location, year, requested, geoCalls, log, fullAtStart,
                 lastResp, interimOut, csvOut>>

\* The process is interrupted between open() and the end of json.dump.
Kill ==
  /\ pc = "write"
  /\ pc' = "idle"
  /\ exit' = "killed"
  /\ UNCHANGED <<location, tree, year, doy, requested, written, geoCalls,
                 log, fullAtStart, lastResp, interimOut, csvOut>>

------------------------------------------------------------------------------
\* make_interim.py and make_csv.py

\* os.path.join(input_folder, location)
LocationPath(loc) == PathJoin(InputFolder, loc)

\* year_regex.search(path) for year_regex = re.compile(r'(.+\d+)'):
\* some digit of the string has a character other than a newline before it
YearRegexSearch(path) ==
  \E i \in 2..Len(path) : IsDigit(path[i]) /\ path[i - 1] # "\n"

\* glob(location_path/*), filter(os.path.isdir), filter(year_regex.search):
\* the search runs on the whole path that glob returned
SelectedDirs(t, loc) ==
  {s \in SubDirs : t[s].exists /\ YearRegexSearch(PathJoin(LocationPath(loc), s))}

\* The orders in which a listing may return the members of S.
Orderings(S) ==
  {f \in [1..Cardinality(S) -> S] : \A i, j \in DOMAIN f : i # j => f[i] # f[j]}

\* ord() of the characters that occur in the modelled paths
Ord(c) == CASE c = "/" -> 47
            [] IsDigit(c) -> 47 + CHOOSE i \in 1..Len(DigitChars) : DigitChars[i] = c
            [] c = "a" -> 97
            [] c = "b" -> 98
            [] c = "m" -> 109
            [] c = "p" -> 112
            [] c = "r" -> 114
            [] c = "t" -> 116
            [] c = "w" -> 119

\* a < b for Python strings
StrLess(a, b) ==
  \E k \in 1..Len(b) :
    /\ \A i \in 1..(k - 1) : i <= Len(a) /\ a[i] = b[i]
    /\ \/ k = Len(a) + 1
       \/ k <= Len(a) /\ Ord(a[k]) < Ord(b[k])

\* sorted(list(...)) of make_interim.py, on the paths of the directories
SortedDirs(S, loc) ==
  CHOOSE f \in Orderings(S) :
    \A i, j \in DOMAIN f :
      i < j => StrLess(PathJoin(LocationPath(loc), f[i]),
                       PathJoin(LocationPath(loc), f[j]))

\* The files glob(obs_folder/*.json) returns, in the listing order `order`.
YearFiles(dir, order) ==
  SelectSeq([i \in 1..Len(order) |-> dir.files[order[i]]],
            LAMBDA f : f # Absent)

RECURSIVE ConcatData(_)
\* pd.concat of the json_normalize'd daily.data of each file: one row per
\* entry, identified here by its `time` value
ConcatData(files) ==
  IF files = <<>> THEN <<>>
  ELSE Head(files).data \o ConcatData(Tail(files))

\* get_observations of make_interim.py. json.loads raises on a file that is
\* not a complete document and pd.concat raises on an empty list; time_zone
\* is the one of the last file read.
GetObservations(dir, order) ==
  LET files == YearFiles(dir, order) IN
  IF files = <<>> \/ \E i \in 1..Len(files) : ~IsComplete(files[i])
  THEN [ok |-> FALSE, rows |-> <<>>, tz |-> ""]
  ELSE [ok |-> TRUE, rows |-> ConcatData(files),
        tz |-> files[Len(files)].timezone]

\* Place of row i of s in the ascending order of the times
Rank(s, i) ==
  Cardinality({j \in 1..Len(s) : s[j] < s[i] \/ (s[j] = s[i] /\ j <= i)})

\* set_index('time') and sort_index(): the rows ascending by their time
SortIndex(s) ==
  CHOOSE r \in {[k \in 1..Len(v) |-> v[CHOOSE i \in 1..Len(v) : Rank(v, i) = k]] :
                  v \in {s}} : TRUE

\* get_observations of make_csv.py: it sorts the rows of the year itself
GetObservationsCsv(dir, order) ==
  LET r == GetObservations(dir, order) IN
  [ok |-> r.ok, rows |-> SortIndex(r.rows), tz |-> ""]

RECURSIVE ConcatFrames(_)
\* observations = pd.concat([observations, observation]), year after year
ConcatFrames(frames) ==
  IF frames = <<>> THEN <<>>
  ELSE Head(frames) \o ConcatFrames(Tail(frames))

\* get_datetime: the epoch seconds become date-times of time_zone, which
\* keeps the instants and their order; then the rows are sorted by them.
GetDatetime(rows, tz) == [rows |-> SortIndex(rows), tz |-> tz]

\* make_interim.main for the location. With no year directory time_zone is
\* unbound at the call of get_datetime.
MakeInterim ==
  /\ pc = "idle"
  /\ interimOut.status = "none"
  /\ csvOut.status = "none"
  /\ \E order \in Orderings(Days) :
     \E sel \in {SelectedDirs(tree, location)} :
     \E ys \in {SortedDirs(sel, location)} :
     \E reads \in {[i \in 1..Len(ys) |-> GetObservations(tree[ys[i]], order)]} :
       interimOut' =
         IF sel = {} \/ \E i \in 1..Len(ys) : ~reads[i].ok
         THEN [status |-> "aborted", years |-> sel, rows |-> <<>>, tz |-> ""]
         ELSE LET dt == GetDatetime(
                          ConcatFrames([i \in 1..Len(ys) |-> reads[i].rows]),
                          reads[Len(ys)].tz)
              IN [status |-> "written", years |-> sel,
                  rows |-> dt.rows, tz |-> dt.tz]
  /\ UNCHANGED <<location, tree, fetchVars, csvOut>>

\* make_csv.main for the location: the years in the order glob returned them.
MakeCsv ==
  /\ pc = "idle"
  /\ interimOut.status = "none"
  /\ csvOut.status = "none"
  /\ \E order \in Orderings(Days) :
     \E sel \in {SelectedDirs(tree, location)} :
     \E ys \in Orderings(sel) :
     \E reads \in {[i \in 1..Len(ys) |-> GetObservationsCsv(tree[ys[i]], order)]} :
       csvOut' =
         IF \E i \in 1..Len(ys) : ~reads[i].ok
         THEN [status |-> "aborted", years |-> sel, rows |-> <<>>, tz |-> ""]
         ELSE [status |-> "written", years |-> sel,
               rows |-> ConcatFrames([i \in 1..Len(ys) |-> reads[i].rows]),
               tz |-> ""]
  /\ UNCHANGED <<location, tree, fetchVars, interimOut>>

FetchNext ==
  \/ \E y \in Years, found \in BOOLEAN : Begin(y, found)
  \/ SkipDay
  \/ FetchDay
  \/ Dump
  \/ Kill

ConsolidateNext ==
  \/ MakeInterim
  \/ MakeCsv

Next == FetchNext \/ ConsolidateNext

\* The pipeline: fetch runs, then one consolidation script.
Spec == Init /\ [][Next]_vars

\* The fetch stage alone: any sequence of runs of get_data.py.
FetchSpec == Init /\ [][FetchNext]_vars

------------------------------------------------------------------------------
\* Properties

File(y, d) == tree[YearDir(y)].files[d]

\* The file of day d of year y after the step.
FileAfter(y, d) == tree'[YearDir(y)].files[d]

\* The step is a call of get_weather for the day the loop is at.
WeatherCall == doy \in requested' /\ doy \notin requested

\* C1 as stated: a run that starts with every day of the year cached makes
\* no network call at all, geocoding included.
C1_ZeroNetworkCalls ==
  fullAtStart => geoCalls + Cardinality(requested) = 0

\* C1 amended: a run calls get_weather for a day only if that day's file is
\* absent when the loop reaches the day, and a run that starts with every day
\* cached calls get_weather for no day; its one network call is the geocoding
\* lookup every run makes.
C1_IdempotentFetch ==
  [][/\ \A d \in requested' \ requested : d = doy /\ File(year, d) = Absent
     /\ fullAtStart' => requested' = {} /\ geoCalls' = 1]_vars

\* A second run over a fully cached year has run to its end.
C1_Witness ==
  pc = "idle" /\ exit = "complete" /\ fullAtStart /\ requested = {}

\* C2: when get_weather returns the failure sentinel for the day the loop is
\* at, the run ends there: the cache is left as it was, days 1..k are still
\* cached, the day has no file, and no later day was requested or written.
C2_Resumability ==
  [][(WeatherCall /\ lastResp'.kind = "None") =>
       /\ pc' = "idle"
       /\ tree' = tree
       /\ \A d \in 1..(doy - 1) : FileAfter(year, d) # Absent
       /\ FileAfter(year, doy) = Absent
       /\ requested' \subseteq 1..doy
       /\ written' \subseteq 1..(doy - 1)]_vars

\* A run whose first day was cached has stopped at a failure of a later day.
C2_Witness ==
  /\ pc = "idle" /\ exit = "fetch_fail" /\ lastResp = None
  /\ doy > 1
  /\ \A d \in 1..(doy - 1) : IsComplete(File(year, d))
  /\ File(year, doy) = Absent

\* C3: a file that holds a written payload keeps its content in every step
\* of every later run.
C3_WriteOnce ==
  [][\A s \in SubDirs, d \in Days :
       IsComplete(tree[s].files[d]) => tree'[s].files[d] = tree[s].files[d]]_vars

\* A run has passed over a file that an earlier run wrote.
C3_Witness ==
  /\ pc = "loop" /\ doy > 1
  /\ IsComplete(File(year, 1))
  /\ 1 \notin written /\ 1 \notin requested

\* C4: whenever a process can make the existence check, every file that
\* exists holds a complete payload.
C4_AtomicCacheWrite ==
  pc # "write" =>
    \A s \in SubDirs, d \in Days :
      tree[s].files[d] # Absent => IsComplete(tree[s].files[d])

\* C5: when get_weather returns a payload without the daily key, or with a
\* daily key that holds no data entry, the process ends at once: the day's
\* file is not written and no later day is requested or written.
C5_ProtocolViolationAbort ==
  [][(/\ WeatherCall
      /\ lastResp'.kind \in {"empty_json", "no_daily", "no_data", "empty_data"}) =>
       /\ pc' = "idle"
       /\ exit' \in {"fetch_fail", "sys_exit", "crash_index"}
       /\ tree' = tree
       /\ FileAfter(year, doy) = Absent
       /\ requested' \subseteq 1..doy
       /\ written' = written]_vars

\* A run that had written day 1 ended on a payload with an empty data list.
C5_Witness ==
  /\ pc = "idle" /\ exit = "crash_index" /\ lastResp.kind = "empty_data"
  /\ doy > 1 /\ 1 \in written
  /\ File(year, doy) = Absent

\* C6: a payload whose first timestamp is of another day than the requested
\* one is written under the requested day, a warning is logged for it, and
\* the run goes on with the next day.
C6_MismatchNonFatal ==
  [][(/\ pc = "write"
      /\ written' # written
      /\ DoyOfTimestamp(lastResp.data[1]) # doy) =>
       /\ FileAfter(year, doy) = lastResp
       /\ \A d \in Days \ {doy} : FileAfter(year, d) = File(year, d)
       /\ \E r \in log' : r.level = "WARNING" /\ r.doy = doy
       /\ doy < NumDays => pc' = "loop" /\ doy' = doy + 1]_vars

Ascending(rows) == \A i \in 1..(Len(rows) - 1) : rows[i] <= rows[i + 1]

\* C7: the dataset that either consolidation script writes has a
\* non-decreasing time index.
C7_ChronologicalOrder ==
  /\ interimOut.status = "written" => Ascending(interimOut.rows)
  /\ csvOut.status = "written" => Ascending(csvOut.rows)

\* C8: after a run that failed, every year directory that exists holds at
\* least one complete day payload.
C8_FailedRunLeavesNoTrace ==
  (pc = "idle" /\ exit \in {"crash_geocode", "fetch_fail", "sys_exit", "crash_index"}) =>
    \A y \in Years :
      tree[YearDir(y)].exists => \E d \in Days : IsComplete(File(y, d))

HasDigit(name) == \E i \in 1..Len(name) : IsDigit(name[i])

\* The subdirectories of the location whose own name holds a digit.
YearDirs == {s \in SubDirs : tree[s].exists /\ HasDigit(s)}

RECURSIVE SumEntries(_)
SumEntries(S) ==
  IF S = {} THEN 0
  ELSE LET x == CHOOSE x \in S : TRUE
       IN Len(tree[x[1]].files[x[2]].data) + SumEntries(S \ {x})

\* Entries of the daily.data lists of all the day files in year directories.
CachedEntries == SumEntries({<<s, d>> : s \in YearDirs, d \in Days})

\* C9: a written dataset has as many rows as the day files of the location's
\* year directories have daily.data entries.
C9_RowCountConservation ==
  /\ interimOut.status = "written" => Len(interimOut.rows) = CachedEntries
  /\ csvOut.status = "written" => Len(csvOut.rows) = CachedEntries

\* C10: the directories a consolidation script takes as years are the
\* subdirectories of the location whose own name holds a digit.
C10_YearDiscovery ==
  /\ interimOut.status # "none" => interimOut.years = YearDirs
  /\ csvOut.status # "none" => csvOut.years = YearDirs

====
